---- MODULE Spec2Model ----
(***************************************************************************)
(* PdfSuite (webapp/app/main.py): the two conversions of the document      *)
(* reconstruction and reflow engine.                                       *)
(*                                                                         *)
(*   word_to_pdf : walks the body of a flow document and paints text       *)
(*                 lines, table rows and images on fixed-size pages,       *)
(*                 keeping a vertical cursor y (RenderSpec).               *)
(*   pdf_to_word : per page, collects tables, images and text lines with   *)
(*                 their y position, sorts them and emits blocks           *)
(*                 (ExtractSpec).                                          *)
(*                                                                         *)
(* ParaSpec is word_to_pdf on documents of one paragraph (styles, runs,    *)
(* alignments, over-wide words), AlignSpec the alignment rule of           *)
(* pdf_to_word on its own, and UploadSpec the order of size checks and     *)
(* engine calls in the upload handlers of webapp and PdfWeb, SplitSpec the  *)
(* page ranges of split_pdf_by_ranges (PdfWeb/app/services/pdf_ops.py).    *)
(*                                                                         *)
(* Lengths are in PDF points.  A text is the sequence of the lengths (in   *)
(* characters) of its whitespace-separated words; stringWidth is the       *)
(* uniform-advance measure the code itself falls back to                   *)
(* (len * font_size * 0.5), kept doubled so that it stays an integer.      *)
(***************************************************************************)
EXTENDS Integers, Sequences, FiniteSets, TLC

VARIABLES
    \* ---- word_to_pdf ----
    doc,        \* word_doc.element.body: the body nodes, in document order
    idx,        \* position of the walk over the body (1-based)
    y,          \* the cursor of the renderer
    canvas,     \* the operations issued on the reportlab canvas, in order
    pc,         \* "walk" | "fell" (fallback pass ran) | "done" | "idle"
    \* ---- pdf_to_word ----
    page,       \* the page of pdf_doc being converted (the input of the step)
    page_num,   \* number of pages converted so far
    table_rects,\* bounding boxes of the tables found on the page
    collected,  \* the list `elements` of the page right before it is sorted
    elements,   \* the list `elements` of the page after elements.sort
    word_doc,   \* the blocks appended to the output document, in order
    xpc,        \* "open" | "saved" | "failed" (an exception ended it) | "idle"
    \* ---- alignment rule on its own ----
    probe,      \* [x_start, x_end, page_width, alignment]
    \* ---- the upload endpoints of the two applications ----
    request,    \* [app, endpoint, files]: the request being served
    file_i,     \* the file of the request the handler reads next (1-based)
    events,     \* size checks and engine calls of the handler, in order
    response,   \* "pending" | "200" | "400" | "413" | "500" | "idle"
    \* ---- split_pdf_by_ranges of PdfWeb ----
    split_in,   \* [ranges, total_pages]: the arguments of _parse_ranges
    split_out   \* [status, groups, written]: the groups _parse_ranges returned
                \* and the page lists of the parts written to the archive

rvars == <<doc, idx, y, canvas, pc>>

xvars == <<page, page_num, table_rects, collected, elements, word_doc, xpc>>

uvars == <<request, file_i, events, response>>

svars == <<split_in, split_out>>

vars == <<doc, idx, y, canvas, pc, page, page_num, table_rects, collected,
          elements, word_doc, xpc, probe, request, file_i, events, response,
          split_in, split_out>>

-----------------------------------------------------------------------------
(* Bounds of the model *)

MaxNodes == 2       \* body nodes of a flow document
MaxWords == 2       \* words of a paragraph
MaxRows == 5        \* rows of a table
MaxPages == 2       \* pages of a PDF document
MaxFiles == 2       \* files of a merge request
MaxRuns == 2        \* runs of a paragraph
MaxParts == 2       \* comma-separated parts of a longer ranges string

WordLens == {40, 60}            \* characters per word

\* <<pixel width, pixel height>> of the embedded images; the scale
\* min(360 / width, 1) is exact on each of them
ImageSizes == {<<360, 620>>, <<720, 1360>>}

-----------------------------------------------------------------------------
(* Page geometry and renderer constants *)

width == 612
height == 792
left_margin == 50
right_margin == width - 50
content_width == right_margin - left_margin
line_height == 16
row_height == 20

NoInt == -1000      \* int() raised ValueError

RECURSIVE SumSeq(_)
SumSeq(s) == IF s = <<>> THEN 0 ELSE Head(s) + SumSeq(Tail(s))

RECURSIVE SeqsUpTo(_, _)
\* all sequences over S of length at most n
SeqsUpTo(S, n) ==
    IF n = 0 THEN {<<>>}
    ELSE LET shorter == SeqsUpTo(S, n - 1)
         IN shorter \cup {Append(s, e) : s \in {t \in shorter : Len(t) = n - 1}, e \in S}

-----------------------------------------------------------------------------
(* The canvas *)

\* one canvas operation: op is "showPage", "drawString", "row" (the cell
\* rectangles and strings of one table row), "drawImage" or "skipImage" (an
\* image given up after its page check, nothing painted); y is the cursor
\* when it was issued and y2 the cursor the code leaves behind it, need the
\* required space of the page check of that primitive, lo..hi the vertical
\* extent painted, el the body node it belongs to, i the index of the row
\* in its table, pass "main" or "fallback", text the words of a drawn line.
\* A drawn line also carries x4 (four times its abscissa, an integer), the
\* indent and alignment it was drawn with, the font in force (font_size,
\* bold, italic) and color, the triple of the color argument (<<>> when it
\* was None and the ink is the default black).
Op(op, yy, y2, need, lo, hi, who, i, text) ==
    [op |-> op, y |-> yy, y2 |-> y2, need |-> need, lo |-> lo, hi |-> hi,
     el |-> who.el, pass |-> who.pass, i |-> i, text |-> text,
     x4 |-> 0, indent |-> 0, alignment |-> "left", font_size |-> 0,
     bold |-> FALSE, italic |-> FALSE, color |-> <<>>]

\* mutant: the page is flushed but the cursor is not reset
check_page_NoReset(pen, needed_space, who) ==
    IF pen.y < needed_space
    THEN [y |-> pen.y,
          c |-> Append(pen.c, Op("showPage", pen.y, pen.y, needed_space,
                                 0, 0, who, 0, <<>>))]
    ELSE pen

check_page(pen, needed_space, who) ==
    IF pen.y < needed_space
    THEN [y |-> height - 50,
          c |-> Append(pen.c, Op("showPage", pen.y, height - 50, needed_space,
                                 0, 0, who, 0, <<>>))]
    ELSE pen

\* twice c.stringWidth of a text of len characters
stringWidth2(len, font_size) == len * font_size

\* number of characters of a line made of the given words joined by blanks
LineLen(line) == IF line = <<>> THEN 0 ELSE SumSeq(line) + Len(line) - 1

\* the keyword arguments of draw_text_aligned
Fmt(font_size, bold, italic, alignment, color, indent) ==
    [font_size |-> font_size, bold |-> bold, italic |-> italic,
     alignment |-> alignment, color |-> color, indent |-> indent]

\* mutant: a centred line is centred between the page margins, whatever
\* the indent
LineX4_PageCentred(line, fmt) ==
    LET w2 == stringWidth2(LineLen(line), fmt.font_size)
    IN IF fmt.alignment = "center" THEN 4 * left_margin + 2 * content_width - w2
       ELSE IF fmt.alignment = "right" THEN 4 * right_margin - 2 * w2
       ELSE 4 * (left_margin + fmt.indent)

\* four times the x of a drawn line
LineX4(line, fmt) ==
    LET effective_left == left_margin + fmt.indent
        effective_width == content_width - fmt.indent
        w2 == stringWidth2(LineLen(line), fmt.font_size)
    IN IF fmt.alignment = "center" THEN 4 * effective_left + (2 * effective_width - w2)
       ELSE IF fmt.alignment = "right" THEN 4 * right_margin - 2 * w2
       ELSE 4 * effective_left

\* c.drawString(x, y, line); y -= line_height
DrawLine(pen, line, fmt, who) ==
    [y |-> pen.y - line_height,
     c |-> Append(pen.c,
                  [Op("drawString", pen.y, pen.y - line_height, 50,
                      pen.y, pen.y + line_height, who, 0, line)
                   EXCEPT !.x4 = LineX4(line, fmt),
                          !.indent = fmt.indent,
                          !.alignment = fmt.alignment,
                          !.font_size = fmt.font_size,
                          !.bold = fmt.bold,
                          !.italic = fmt.italic,
                          !.color = fmt.color])]

RECURSIVE WrapWords(_, _, _, _, _)
\* the word-wrapping loop: returns the pen and the line still to be drawn
WrapWords(pen, words, line, fmt, who) ==
    IF words = <<>> THEN [pen |-> pen, line |-> line]
    ELSE LET word == Head(words)
             test_line == Append(line, word)
             effective_width == content_width - fmt.indent
         IN IF stringWidth2(LineLen(test_line), fmt.font_size) < 2 * effective_width
            THEN WrapWords(pen, Tail(words), test_line, fmt, who)
            ELSE IF line # <<>>
                 THEN WrapWords(check_page(DrawLine(pen, line, fmt, who), 50, who),
                                Tail(words), <<word>>, fmt, who)
                 ELSE WrapWords(pen, Tail(words), <<word>>, fmt, who)

draw_text_aligned(pen, text, fmt, who) ==
    IF text = <<>> THEN [pen EXCEPT !.y = pen.y - (line_height \div 2)]
    ELSE LET w == WrapWords(pen, text, <<>>, fmt, who)
             last == IF w.line # <<>> THEN DrawLine(w.pen, w.line, fmt, who) ELSE w.pen
         IN check_page(last, 50, who)

RECURSIVE DrawRows_NoCheck(_, _, _, _)
\* mutant: the rows are painted without the page check in front of each
DrawRows_NoCheck(pen, i, n, who) ==
    IF i >= n THEN pen
    ELSE LET drawn == [y |-> pen.y - row_height,
                       c |-> Append(pen.c, Op("row", pen.y, pen.y - row_height,
                                              row_height + 20, pen.y - row_height + 4,
                                              pen.y + 4, who, i, <<>>))]
         IN DrawRows_NoCheck(drawn, i + 1, n, who)

RECURSIVE DrawRows(_, _, _, _)
\* rows i .. n-1 of a table
DrawRows(pen, i, n, who) ==
    IF i >= n THEN pen
    ELSE LET p == check_page(pen, row_height + 20, who)
             \* the first row also stands behind the check_page(100) of the table
             need == IF i = 0 THEN 100 ELSE row_height + 20
             drawn == [y |-> p.y - row_height,
                       c |-> Append(p.c, Op("row", p.y, p.y - row_height, need,
                                            p.y - row_height + 4, p.y + 4, who, i, <<>>))]
         IN DrawRows(drawn, i + 1, n, who)

draw_table_with_borders(pen, table, who) ==
    IF table.rows = 0 THEN pen
    ELSE LET p == DrawRows(check_page(pen, 100, who), 0, table.rows, who)
         IN [p EXCEPT !.y = p.y - 10]

\* draw_height = img_height * min(min(content_width, 5 * 72) / img_width, 1)
DrawHeight(img) ==
    LET max_width == IF content_width < 5 * 72 THEN content_width ELSE 5 * 72
    IN IF img.size[1] <= max_width THEN img.size[2]
       ELSE (img.size[2] * max_width) \div img.size[1]

\* img.ok: "ok"; "open" (Image.open raises); "save" (img.save or drawImage
\* raises, after the page check)
draw_image(pen, img, who) ==
    IF img.ok = "open" THEN pen
    ELSE LET draw_height == DrawHeight(img)
             p == check_page(pen, draw_height + 20, who)
         IN IF img.ok = "save"
            THEN [p EXCEPT !.c = Append(p.c, Op("skipImage", p.y, p.y, draw_height + 20,
                                                p.y, p.y, who, 0, <<>>))]
            ELSE [y |-> p.y - (draw_height + 10),
                  c |-> Append(p.c, Op("drawImage", p.y, p.y - (draw_height + 10),
                                       draw_height + 20, p.y - draw_height, p.y,
                                       who, 0, <<>>))]

RECURSIVE DrawImages(_, _, _)
DrawImages(pen, images, who) ==
    IF images = <<>> THEN pen
    ELSE DrawImages(draw_image(pen, Head(images), who), Tail(images), who)

-----------------------------------------------------------------------------
(* Styles *)

IntTokens == ("0" :> 0) @@ ("1" :> 1) @@ ("2" :> 2) @@ ("3" :> 3) @@ ("4" :> 4)
             @@ ("5" :> 5) @@ ("6" :> 6) @@ ("9" :> 9)
             @@ ("-1" :> (0 - 1)) @@ ("-2" :> (0 - 2)) @@ ("-3" :> (0 - 3))

\* int(token)
ParseInt(token) == IF token \in DOMAIN IntTokens THEN IntTokens[token] ELSE NoInt

\* "Heading" in style_name, style_name as its blank-separated tokens
HasToken(style_name, tok) == \E k \in 1..Len(style_name) : style_name[k] = tok

HeadingLevel(style_name) ==
    LET n == IF style_name = <<>> THEN NoInt ELSE ParseInt(style_name[Len(style_name)])
    IN IF n = NoInt THEN 1 ELSE n

\* mutant: no floor of 12 under the size
HeadingFontSize_NoFloor(level) == IF level <= 3 THEN 18 - (level * 2) ELSE 11

HeadingFontSize(level) ==
    LET font_size == IF level <= 3 THEN 18 - (level * 2) ELSE 11
    IN IF font_size > 12 THEN font_size ELSE 12

-----------------------------------------------------------------------------
(* The walk over the body *)

PrefixWord == 3     \* the bullet prefix is one word of three characters

\* a run is [bold, italic, color]: bold and italic are the truth values of
\* run.bold and run.italic (None counts as false), color is
\* [type, rgb] with type "none" (no colour element), "auto" (w:val="auto")
\* or "rgb"; run.font.color.rgb is None unless the type is "rgb"
NoColor == <<>>

get_run_color(run) ==
    IF run.color.type = "rgb" THEN run.color.rgb ELSE NoColor

\* any(run.bold for run in para.runs if run.bold)
AnyBold(runs) == \E k \in 1..Len(runs) : runs[k].bold

\* any(run.italic for run in para.runs if run.italic)
AnyItalic(runs) == \E k \in 1..Len(runs) : runs[k].italic

RECURSIVE FirstRunColor(_)
\* the colour of the first run that has one
FirstRunColor(runs) ==
    IF runs = <<>> THEN NoColor
    ELSE IF get_run_color(Head(runs)) # NoColor THEN get_run_color(Head(runs))
    ELSE FirstRunColor(Tail(runs))

\* mutant: the formatting of the first run stands for the paragraph
RunStyle_FirstRun(runs) ==
    IF runs # <<>>
    THEN [bold |-> runs[1].bold, italic |-> runs[1].italic,
          color |-> get_run_color(runs[1])]
    ELSE [bold |-> FALSE, italic |-> FALSE, color |-> NoColor]

\* is_bold, is_italic and color of a body paragraph, lines 749-773
RunStyle(runs) ==
    IF Len(runs) > 1
    THEN [bold |-> AnyBold(runs), italic |-> AnyItalic(runs),
          color |-> FirstRunColor(runs)]
    ELSE IF runs # <<>>
         THEN [bold |-> runs[1].bold, italic |-> runs[1].italic,
               color |-> get_run_color(runs[1])]
         ELSE [bold |-> FALSE, italic |-> FALSE, color |-> NoColor]

\* one paragraph of the body, lines 698-774
DrawParagraph(pen, para, who) ==
    LET indent == IF para.numPr THEN 20 ELSE 0
        p == DrawImages(pen, para.images, who)
    IN IF para.text = <<>> THEN [p EXCEPT !.y = p.y - (line_height \div 2)]
       ELSE IF HasToken(para.style, "Heading")
            THEN LET q == draw_text_aligned(p, para.text,
                              Fmt(HeadingFontSize(HeadingLevel(para.style)), TRUE, FALSE,
                                  para.alignment, NoColor, 0), who)
                 IN [q EXCEPT !.y = q.y - 4]
            ELSE IF HasToken(para.style, "Title")
                 THEN LET q == draw_text_aligned(p, para.text,
                                   Fmt(20, TRUE, FALSE, para.alignment, NoColor, 0), who)
                      IN [q EXCEPT !.y = q.y - 6]
                 ELSE LET display_text == IF para.numPr THEN <<PrefixWord>> \o para.text
                                          ELSE para.text
                          st == RunStyle(para.runs)
                      IN draw_text_aligned(p, display_text,
                             Fmt(11, st.bold, st.italic, para.alignment, st.color, indent),
                             who)

ProcessElement(pen, element, who) ==
    IF element.tag = "p" THEN DrawParagraph(pen, element, who)
    ELSE IF element.tag = "tbl" THEN draw_table_with_borders(pen, element, who)
    ELSE pen

RECURSIVE FallbackParagraphs(_, _, _)
\* for para in word_doc.paragraphs: the text paragraphs, at the default font
FallbackParagraphs(pen, body, k) ==
    IF k > Len(body) THEN pen
    ELSE LET e == body[k]
             who == [el |-> k, pass |-> "fallback"]
         IN IF e.tag = "p" /\ e.text # <<>>
            THEN FallbackParagraphs(
                     draw_text_aligned(pen, e.text,
                         Fmt(11, AnyBold(e.runs), FALSE, e.alignment, NoColor, 0), who),
                     body, k + 1)
            ELSE FallbackParagraphs(pen, body, k + 1)

RECURSIVE FallbackTables(_, _, _)
\* for table in word_doc.tables
FallbackTables(pen, body, k) ==
    IF k > Len(body) THEN pen
    ELSE LET e == body[k]
             who == [el |-> k, pass |-> "fallback"]
         IN IF e.tag = "tbl"
            THEN FallbackTables(draw_table_with_borders(pen, e, who), body, k + 1)
            ELSE FallbackTables(pen, body, k + 1)

-----------------------------------------------------------------------------
(* Input documents *)

\* a paragraph of the body: alignment is the value of get_para_alignment,
\* runs the formatting of para.runs
Paragraph(images, text, style, numPr, alignment, runs) ==
    [tag |-> "p", images |-> images, text |-> text, style |-> style,
     numPr |-> numPr, rows |-> 0, alignment |-> alignment, runs |-> runs]

DocxRun(bold, italic, color) == [bold |-> bold, italic |-> italic, color |-> color]

Uncoloured == [type |-> "none", rgb |-> <<>>]

\* a left-aligned paragraph of one unformatted run
Para(images, text, style, numPr) ==
    Paragraph(images, text, style, numPr, "left", <<DocxRun(FALSE, FALSE, Uncoloured)>>)

Tbl(rows) ==
    [tag |-> "tbl", images |-> <<>>, text |-> <<>>, style |-> <<>>,
     numPr |-> FALSE, rows |-> rows, alignment |-> "left", runs |-> <<>>]

Texts == SeqsUpTo(WordLens, MaxWords)

Images == [size : ImageSizes, ok : {"ok"}]
          \cup {[size |-> <<360, 620>>, ok |-> "open"],
                [size |-> <<720, 1360>>, ok |-> "save"]}

Nodes ==
    {Para(<<>>, t, <<"Normal">>, FALSE) : t \in Texts}
    \cup {Para(<<>>, t, s, FALSE) :
            t \in {u \in Texts : Len(u) = 1},
            s \in {<<"Heading", "1">>, <<"Title">>}}
    \cup {Para(<<>>, t, <<"List", "Paragraph">>, TRUE) : t \in {u \in Texts : Len(u) = 1}}
    \cup {Para(<<im>>, t, <<"Normal">>, FALSE) : im \in Images, t \in {<<>>, <<40>>}}
    \cup {Tbl(k) : k \in 0..MaxRows}

Docs == SeqsUpTo(Nodes, MaxNodes)

-----------------------------------------------------------------------------
(* word_to_pdf *)

NoPage == [width |-> 0, tables |-> <<>>, images |-> <<>>, blocks |-> <<>>]

NoProbe == [x_start |-> 0, x_end |-> 0, page_width |-> 0, alignment |-> "none"]

ExtractIdle ==
    /\ page = NoPage
    /\ page_num = 0
    /\ table_rects = <<>>
    /\ collected = <<>>
    /\ elements = <<>>
    /\ word_doc = <<>>
    /\ xpc = "idle"

NoRequest == [app |-> "none", endpoint |-> "none", files |-> <<>>]

UploadIdle ==
    /\ request = NoRequest
    /\ file_i = 1
    /\ events = <<>>
    /\ response = "idle"

NoSplit == [ranges |-> <<>>, total_pages |-> 0]

SplitIdle ==
    /\ split_in = NoSplit
    /\ split_out = [status |-> "idle", groups |-> <<>>, written |-> <<>>]

RenderIdle ==
    /\ doc = <<>>
    /\ idx = 1
    /\ y = height - 50
    /\ canvas = <<>>
    /\ pc = "idle"

RenderInit ==
    /\ doc \in Docs
    /\ idx = 1
    /\ y = height - 50
    /\ canvas = <<>>
    /\ pc = "walk"
    /\ ExtractIdle
    /\ probe = NoProbe
    /\ UploadIdle
    /\ SplitIdle

\* one iteration of `for element in word_doc.element.body`
WalkElement ==
    /\ pc = "walk"
    /\ idx <= Len(doc)
    /\ LET pen == ProcessElement([y |-> y, c |-> canvas], doc[idx],
                                 [el |-> idx, pass |-> "main"])
       IN /\ y' = pen.y
          /\ canvas' = pen.c
    /\ idx' = idx + 1
    /\ UNCHANGED <<doc, pc, xvars, probe, uvars, svars>>

\* `if y == height - 50:` after the walk: the fallback pass
Fallback ==
    /\ pc = "walk"
    /\ idx > Len(doc)
    /\ y = height - 50
    /\ LET p == FallbackParagraphs([y |-> y, c |-> canvas], doc, 1)
           q == FallbackTables(p, doc, 1)
       IN /\ y' = q.y
          /\ canvas' = q.c
    /\ pc' = "fell"
    /\ UNCHANGED <<doc, idx, xvars, probe, uvars, svars>>

\* c.save()
Save ==
    /\ \/ pc = "walk" /\ idx > Len(doc) /\ y # height - 50
       \/ pc = "fell"
    /\ pc' = "done"
    /\ UNCHANGED <<doc, idx, y, canvas, xvars, probe, uvars, svars>>

RenderNext == WalkElement \/ Fallback \/ Save

RenderSpec == RenderInit /\ [][RenderNext]_vars

-----------------------------------------------------------------------------
(* word_to_pdf on a document of one paragraph: styles, runs, alignments and
   words that do not fit a line *)

\* a word of 100 characters is wider than the content width at every font
\* size of the renderer, a word of 4 characters leaves room on a line
ParaWordLens == {4, 40, 60, 100}

ParaTexts == SeqsUpTo(ParaWordLens, MaxWords)

Alignments == {"left", "center", "right"}

StyleNames ==
    {<<"Normal">>, <<"Heading">>, <<"TOC", "Heading">>, <<"Title">>, <<"Sub", "Title">>}
    \cup {<<"Heading", t>> : t \in DOMAIN IntTokens}

Black == [type |-> "rgb", rgb |-> <<0, 0, 0>>]
Red == [type |-> "rgb", rgb |-> <<255, 0, 0>>]
Blue == [type |-> "rgb", rgb |-> <<0, 0, 255>>]
Auto == [type |-> "auto", rgb |-> <<>>]

RunInputs ==
    {DocxRun(FALSE, FALSE, Uncoloured), DocxRun(TRUE, FALSE, Uncoloured),
     DocxRun(FALSE, TRUE, Auto), DocxRun(FALSE, FALSE, Black),
     DocxRun(FALSE, FALSE, Red), DocxRun(TRUE, TRUE, Blue)}

RunLists == SeqsUpTo(RunInputs, MaxRuns)

ParaInputs ==
    {Paragraph(<<>>, t, <<"Normal">>, n, a, <<DocxRun(FALSE, FALSE, Uncoloured)>>) :
        t \in ParaTexts, n \in BOOLEAN, a \in Alignments}
    \cup {Paragraph(<<>>, t, s, n, a, <<DocxRun(FALSE, TRUE, Red)>>) :
            t \in {<<40>>, <<60, 60>>}, s \in StyleNames, n \in BOOLEAN, a \in Alignments}
    \cup {Paragraph(<<>>, <<40>>, <<"Normal">>, FALSE, "left", r) : r \in RunLists}

ParaInit ==
    /\ doc \in {<<p>> : p \in ParaInputs} \cup {<<>>}
    /\ idx = 1
    /\ y = height - 50
    /\ canvas = <<>>
    /\ pc = "walk"
    /\ ExtractIdle
    /\ probe = NoProbe
    /\ UploadIdle
    /\ SplitIdle

ParaSpec == ParaInit /\ [][RenderNext]_vars

-----------------------------------------------------------------------------
(* pdf_to_word: geometry and classification *)

Abs(n) == IF n < 0 THEN 0 - n ELSE n

Max2(a, b) == IF a > b THEN a ELSE b

Min2(a, b) == IF a < b THEN a ELSE b

\* a rectangle is <<x0, y0, x1, y1>>
IsEmptyRect(r) == r[1] >= r[3] \/ r[2] >= r[4]

\* fitz.Rect(tr).intersects(block_rect): the two rectangles have a non-empty
\* rectangle in common
Intersects(tr, r) ==
    /\ ~IsEmptyRect(tr)
    /\ ~IsEmptyRect(r)
    /\ Max2(tr[1], r[1]) < Min2(tr[3], r[3])
    /\ Max2(tr[2], r[2]) < Min2(tr[4], r[4])

\* mutant: a block counts as table text only if it covers a whole table
InTable_Covers(rects, block_rect) ==
    \E k \in 1..Len(rects) :
        /\ block_rect[1] <= rects[k][1] /\ block_rect[2] <= rects[k][2]
        /\ rects[k][3] <= block_rect[3] /\ rects[k][4] <= block_rect[4]

\* in_table = any(fitz.Rect(tr).intersects(block_rect) for tr in table_rects)
InTable(rects, block_rect) == \E k \in 1..Len(rects) : Intersects(rects[k], block_rect)

\* mutant: the tolerance is inclusive
Alignment_Inclusive(x_start, x_end, page_width) ==
    LET lm == x_start
        rm == page_width - x_end
    IN IF 20 * Abs(lm - rm) <= page_width /\ 10 * lm > page_width THEN "center"
       ELSE IF 20 * rm <= page_width /\ 10 * lm > page_width THEN "right"
       ELSE "left"

\* d < margin_tolerance, with margin_tolerance = page_width * 0.05,
\* compared after scaling by 20
WithinTolerance(d, page_width) == 20 * d < page_width

\* mutant: any positive left margin is enough
ExceedsMinMargin_Positive(lm, page_width) == lm > 0

\* left_margin > min_margin_for_center, with min_margin_for_center =
\* page_width * 0.1, compared after scaling by 10
ExceedsMinMargin(lm, page_width) == 10 * lm > page_width

\* the test of the first branch, line 374
CenterCondition(lm, rm, page_width) ==
    WithinTolerance(Abs(lm - rm), page_width) /\ ExceedsMinMargin(lm, page_width)

\* the test of the second branch, line 376
RightCondition(lm, rm, page_width) ==
    WithinTolerance(rm, page_width) /\ ExceedsMinMargin(lm, page_width)

\* the alignment of a line, lines 369-377
Alignment(x_start, x_end, page_width) ==
    LET lm == x_start
        rm == page_width - x_end
    IN IF CenterCondition(lm, rm, page_width) THEN "center"
       ELSE IF RightCondition(lm, rm, page_width) THEN "right"
       ELSE "left"

\* span.get("font", "").lower(), a font name given by its parts
LowerTable == ("Bold" :> "bold") @@ ("Italic" :> "italic") @@ ("Arial" :> "arial")
              @@ ("Black" :> "black") @@ ("Oblique" :> "oblique")

Lower(part) == IF part \in DOMAIN LowerTable THEN LowerTable[part] ELSE part

FontHas(font, words) == \E k \in 1..Len(font) : Lower(font[k]) \in words

\* one entry of spans_info
SpanInfo(span) ==
    [text |-> span.text,
     size |-> span.size,
     bold |-> FontHas(span.font, {"bold", "heavy", "black"}),
     italic |-> FontHas(span.font, {"italic", "oblique"}),
     color |-> <<(span.color \div 65536) % 256, (span.color \div 256) % 256,
                 span.color % 256>>]

RECURSIVE SpansInfo(_)
\* the spans of a line with a non-empty text
SpansInfo(spans) ==
    IF spans = <<>> THEN <<>>
    ELSE IF Head(spans).text = "" THEN SpansInfo(Tail(spans))
         ELSE <<SpanInfo(Head(spans))>> \o SpansInfo(Tail(spans))

RECURSIVE MaxSize(_)
MaxSize(infos) ==
    IF Len(infos) = 1 THEN infos[1].size
    ELSE Max2(Head(infos).size, MaxSize(Tail(infos)))

-----------------------------------------------------------------------------
(* pdf_to_word: table cells *)

\* a cell is a sequence of characters; NoneCell is the None that
\* table.extract() returns for a cell without text
NoneCell == <<"None">>

RECURSIVE LStrip(_)
LStrip(cell) == IF cell # <<>> /\ Head(cell) = " " THEN LStrip(Tail(cell)) ELSE cell

RECURSIVE RStrip(_)
RStrip(cell) ==
    IF cell # <<>> /\ cell[Len(cell)] = " " THEN RStrip(SubSeq(cell, 1, Len(cell) - 1))
    ELSE cell

\* cell.strip()
Strip(cell) == RStrip(LStrip(cell))

\* cell and cell.strip()
CellHasText(cell) == cell # NoneCell /\ cell # <<>> /\ Strip(cell) # <<>>

\* any(cell and cell.strip() for cell in row)
RowHasText(row) == \E k \in 1..Len(row) : CellHasText(row[k])

\* [row for row in table_data if any(...)]
DropBlankRows(table_data) == SelectSeq(table_data, RowHasText)

-----------------------------------------------------------------------------
(* pdf_to_word: collecting the units of a page *)

NoImg == [ok |-> FALSE, width |-> 0, height |-> 0, x |-> 0, page_width |-> 0]

\* one entry (y_pos, type, data) of `elements`; src tells which table, image
\* or <<block, line>> of the page it was made from
Unit(y_pos, type, src, rows, spans, alignment, max_size, img) ==
    [y |-> y_pos, type |-> type, src |-> src, rows |-> rows, spans |-> spans,
     alignment |-> alignment, max_size |-> max_size, img |-> img]

RECURSIVE CollectTableRects_Emitted(_)
\* mutant: the bounding box is recorded only for a table that is emitted
CollectTableRects_Emitted(tables) ==
    IF tables = <<>> THEN <<>>
    ELSE (IF DropBlankRows(Head(tables).data) # <<>> THEN <<Head(tables).bbox>> ELSE <<>>)
         \o CollectTableRects_Emitted(Tail(tables))

RECURSIVE CollectTableRects(_)
\* table_rects.append(table.bbox), for every table found
CollectTableRects(tables) ==
    IF tables = <<>> THEN <<>>
    ELSE <<Head(tables).bbox>> \o CollectTableRects(Tail(tables))

RECURSIVE CollectTables(_, _)
CollectTables(tables, k) ==
    IF k > Len(tables) THEN <<>>
    ELSE LET table == tables[k]
             table_data == DropBlankRows(table.data)
         IN (IF table.data # <<>> /\ table_data # <<>>
             THEN <<Unit(table.bbox[2], "table", <<k>>, table_data, <<>>, "none", 0, NoImg)>>
             ELSE <<>>)
            \o CollectTables(tables, k + 1)

RECURSIVE CollectImages(_, _, _)
\* an image whose extraction raises, or that has no rectangle on the page,
\* gives no unit
CollectImages(images, k, page_width) ==
    IF k > Len(images) THEN <<>>
    ELSE LET im == images[k]
         IN (IF im.extract = "ok" /\ im.rects # <<>>
             THEN LET img_rect == im.rects[1]
                  IN <<Unit(img_rect[2], "image", <<k>>, <<>>, <<>>, "none", 0,
                            [ok |-> im.insert = "ok",
                             width |-> img_rect[3] - img_rect[1],
                             height |-> img_rect[4] - img_rect[2],
                             x |-> img_rect[1],
                             page_width |-> page_width])>>
             ELSE <<>>)
            \o CollectImages(images, k + 1, page_width)

RECURSIVE CollectLines(_, _, _, _)
\* the lines of one text block
CollectLines(lines, b, l, page_width) ==
    IF l > Len(lines) THEN <<>>
    ELSE LET line == lines[l]
             spans_info == SpansInfo(line.spans)
         IN (IF spans_info = <<>> THEN <<>>
             ELSE <<Unit(line.bbox[2], "text", <<b, l>>, <<>>, spans_info,
                         Alignment(line.bbox[1], line.bbox[3], page_width),
                         MaxSize(spans_info), NoImg)>>)
            \o CollectLines(lines, b, l + 1, page_width)

RECURSIVE CollectText(_, _, _, _)
CollectText(blocks, b, rects, page_width) ==
    IF b > Len(blocks) THEN <<>>
    ELSE LET block == blocks[b]
         IN (IF block.type # 0 THEN <<>>
             ELSE IF InTable(rects, block.bbox) THEN <<>>
             ELSE CollectLines(block.lines, b, 1, page_width))
            \o CollectText(blocks, b + 1, rects, page_width)

\* table.extract() stands outside any try block (lines 279-290): when it
\* raises for one table of the page, the exception leaves pdf_to_word
TableExtractRaises(pg) == \E k \in 1..Len(pg.tables) : pg.tables[k].extract = "raise"

\* the tables of the page up to the first one whose extract() raises: the
\* raising table itself if inclusive (its bbox is appended before the call)
TablesUntilRaise(tables, inclusive) ==
    LET first == CHOOSE k \in 1..Len(tables) :
                     /\ tables[k].extract = "raise"
                     /\ \A j \in 1..(k - 1) : tables[j].extract # "raise"
    IN SubSeq(tables, 1, IF inclusive THEN first ELSE first - 1)

\* lines 275-386: tables, then images, then text
CollectElements(pg) ==
    CollectTables(pg.tables, 1)
    \o CollectImages(pg.images, 1, pg.width)
    \o CollectText(pg.blocks, 1, CollectTableRects(pg.tables), pg.width)

RECURSIVE InsertByY_Unstable(_, _)
\* mutant: e goes in front of the elements with an equal key
InsertByY_Unstable(sorted, e) ==
    IF sorted = <<>> THEN <<e>>
    ELSE IF sorted[Len(sorted)].y < e.y THEN Append(sorted, e)
         ELSE Append(InsertByY_Unstable(SubSeq(sorted, 1, Len(sorted) - 1), e),
                     sorted[Len(sorted)])

RECURSIVE InsertByY(_, _)
\* e goes behind every element whose key is not larger
InsertByY(sorted, e) ==
    IF sorted = <<>> THEN <<e>>
    ELSE IF sorted[Len(sorted)].y <= e.y THEN Append(sorted, e)
         ELSE Append(InsertByY(SubSeq(sorted, 1, Len(sorted) - 1), e), sorted[Len(sorted)])

RECURSIVE SortFrom(_, _, _)
SortFrom(sorted, s, k) ==
    IF k > Len(s) THEN sorted ELSE SortFrom(InsertByY(sorted, s[k]), s, k + 1)

\* mutant: the list is left in collection order
SortByY_NoSort(s) == s

\* elements.sort(key=lambda x: x[0]): stable, ascending
SortByY(s) == SortFrom(<<>>, s, 1)

-----------------------------------------------------------------------------
(* pdf_to_word: emitting the blocks of a page *)

NoUnit == Unit(0, "none", <<>>, <<>>, <<>>, "none", 0, NoImg)

\* one block of the output document: kind is "page_break", "table",
\* "paragraph" or "picture"; unit is the unit it was emitted for
Block(kind, pn, unit, alignment, cells, runs, width_pt) ==
    [kind |-> kind, page |-> pn, unit |-> unit, alignment |-> alignment,
     cells |-> cells, runs |-> runs, width_pt |-> width_pt]

RECURSIVE MaxLen(_)
MaxLen(rows) == IF rows = <<>> THEN 0 ELSE Max2(Len(Head(rows)), MaxLen(Tail(rows)))

\* the grid of the emitted table: num_cols columns, cell.strip() where the
\* source row has a cell with text
TableCells(table_data) ==
    LET num_cols == MaxLen(table_data)
    IN [i \in 1..Len(table_data) |->
          [j \in 1..num_cols |->
              IF j <= Len(table_data[i]) /\ table_data[i][j] # NoneCell
                 /\ table_data[i][j] # <<>>
              THEN Strip(table_data[i][j]) ELSE <<>>]]

Run(span_info) ==
    [text |-> span_info.text, bold |-> span_info.bold, italic |-> span_info.italic,
     size |-> span_info.size,
     color |-> IF span_info.color = <<0, 0, 0>> THEN <<>> ELSE span_info.color]

RECURSIVE Runs(_)
Runs(spans) == IF spans = <<>> THEN <<>> ELSE <<Run(Head(spans))>> \o Runs(Tail(spans))

\* mutant: the picture block is appended even if run.add_picture raised
EmitUnit_PictureAnyway(u, pn, page_width) ==
    IF u.type = "table"
    THEN <<Block("table", pn, u, "none", TableCells(u.rows), <<>>, 0),
           Block("paragraph", pn, NoUnit, "left", <<>>, <<>>, 0)>>
    ELSE IF u.type = "image"
    THEN LET img_right == u.img.page_width - (u.img.x + u.img.width)
         IN <<Block("picture", pn, u,
                    IF 20 * Abs(u.img.x - img_right) < page_width
                    THEN "center" ELSE "left",
                    <<>>, <<>>, Min2(u.img.width, 6 * 72))>>
    ELSE <<Block("paragraph", pn, u, u.alignment, <<>>, Runs(u.spans), 0)>>

\* the blocks appended for one unit, lines 393-448
EmitUnit(u, pn, page_width) ==
    IF u.type = "table"
    THEN <<Block("table", pn, u, "none", TableCells(u.rows), <<>>, 0),
           Block("paragraph", pn, NoUnit, "left", <<>>, <<>>, 0)>>
    ELSE IF u.type = "image"
    THEN IF u.img.ok
         THEN LET img_right == u.img.page_width - (u.img.x + u.img.width)
              IN <<Block("picture", pn, u,
                         IF 20 * Abs(u.img.x - img_right) < page_width
                         THEN "center" ELSE "left",
                         <<>>, <<>>, Min2(u.img.width, 6 * 72))>>
         \* run.add_picture raises after word_doc.add_paragraph()
         ELSE <<Block("paragraph", pn, u, "left", <<>>, <<>>, 0)>>
    ELSE <<Block("paragraph", pn, u, u.alignment, <<>>, Runs(u.spans), 0)>>

RECURSIVE EmitAll(_, _, _, _)
EmitAll(units, k, pn, page_width) ==
    IF k > Len(units) THEN <<>>
    ELSE EmitUnit(units[k], pn, page_width) \o EmitAll(units, k + 1, pn, page_width)

-----------------------------------------------------------------------------
(* Input pages *)

PageWidths == {200}

TableBox == <<20, 10, 100, 50>>

Span(text, font, color) == [text |-> text, size |-> 12, font |-> font, color |-> color]

Line(bbox, spans) == [bbox |-> bbox, spans |-> spans]

LineInside == Line(<<30, 20, 90, 30>>, <<Span("cell", <<"Arial">>, 0)>>)
LineBeside == Line(<<120, 10, 180, 22>>, <<Span("beside", <<"Arial", "Bold">>, 0)>>)
LineAbove == Line(<<20, 0, 180, 8>>, <<Span("above", <<"Arial">>, 16711680)>>)
LineCentered == Line(<<60, 60, 140, 72>>,
                     <<Span("mid", <<"Arial", "Italic">>, 0), Span("", <<"Arial">>, 0)>>)
LineRight == Line(<<100, 80, 195, 92>>, <<Span("right", <<"Arial">>, 255)>>)
LineNoText == Line(<<20, 100, 180, 110>>, <<Span("", <<"Arial">>, 0)>>)

\* the bounding box of a block is the hull of the boxes of its lines
RECURSIVE Hull(_)
Hull(lines) ==
    IF Len(lines) = 1 THEN lines[1].bbox
    ELSE LET h == Hull(Tail(lines))
             b == Head(lines).bbox
         IN <<Min2(b[1], h[1]), Min2(b[2], h[2]), Max2(b[3], h[3]), Max2(b[4], h[4])>>

TextBlock(lines) == [type |-> 0, bbox |-> Hull(lines), lines |-> lines]

ImageBlock == [type |-> 1, bbox |-> <<120, 10, 180, 40>>, lines |-> <<>>]

BlockLists ==
    {<<>>,
     <<TextBlock(<<LineInside>>), TextBlock(<<LineRight>>)>>,
     <<TextBlock(<<LineBeside>>), ImageBlock, TextBlock(<<LineAbove>>)>>,
     <<TextBlock(<<LineInside, LineCentered>>)>>,
     <<TextBlock(<<LineCentered, LineNoText, LineRight>>)>>}

DataMixed == << <<<<" ">>, NoneCell>>, <<<<" ", "a", " ">>, <<>>>>, <<<<"b">>>> >>
DataBlank == << <<<<>>, <<" ">>>>, <<NoneCell, NoneCell>> >>

TableLists ==
    {<<>>,
     <<[bbox |-> TableBox, data |-> DataMixed, extract |-> "ok"]>>,
     <<[bbox |-> TableBox, data |-> DataBlank, extract |-> "ok"]>>}

ImageLists ==
    {<<>>,
     <<[extract |-> "ok", rects |-> <<<<120, 10, 180, 40>>, <<0, 0, 60, 30>>>>,
        insert |-> "ok"]>>,
     <<[extract |-> "ok", rects |-> <<<<70, 70, 130, 90>>>>, insert |-> "fail"]>>}

\* pages with an element that fails while it is collected: a table whose
\* extract() raises, an image whose extract_image raises
RaisingTable == [bbox |-> TableBox, data |-> <<>>, extract |-> "raise"]

LostImage == [extract |-> "raise", rects |-> <<<<70, 70, 130, 90>>>>, insert |-> "ok"]

FailurePages ==
    {[width |-> 200, tables |-> <<RaisingTable>>, images |-> <<>>,
      blocks |-> <<TextBlock(<<LineCentered, LineNoText, LineRight>>)>>],
     [width |-> 200, tables |-> <<>>, images |-> <<LostImage>>,
      blocks |-> <<TextBlock(<<LineBeside>>), ImageBlock, TextBlock(<<LineAbove>>)>>],
     [width |-> 200,
      tables |-> <<[bbox |-> TableBox, data |-> DataMixed, extract |-> "ok"]>>,
      images |-> <<LostImage,
                   [extract |-> "ok", rects |-> <<<<120, 10, 180, 40>>>>, insert |-> "ok"]>>,
      blocks |-> <<TextBlock(<<LineCentered, LineNoText, LineRight>>)>>]}

PageInputs ==
    [width : PageWidths, tables : TableLists, images : ImageLists, blocks : BlockLists]
    \cup FailurePages

-----------------------------------------------------------------------------
(* pdf_to_word *)

ExtractInit ==
    /\ page = NoPage
    /\ page_num = 0
    /\ table_rects = <<>>
    /\ collected = <<>>
    /\ elements = <<>>
    /\ word_doc = <<>>
    /\ xpc = "open"
    /\ RenderIdle
    /\ probe = NoProbe
    /\ UploadIdle
    /\ SplitIdle

\* one iteration of `for page_num, page in enumerate(pdf_doc)`; an exception
\* that no handler of the loop catches ends the request without a document
ExtractPage ==
    /\ xpc = "open"
    /\ page_num < MaxPages
    /\ \E pg \in PageInputs :
          LET units == CollectElements(pg)
              sorted == SortByY(units)
              break == IF page_num > 0
                       THEN <<Block("page_break", page_num + 1, NoUnit, "left",
                                    <<>>, <<>>, 0)>>
                       ELSE <<>>
          IN /\ page' = pg
             /\ IF TableExtractRaises(pg)
                THEN /\ xpc' = "failed"
                     /\ table_rects' = CollectTableRects(TablesUntilRaise(pg.tables, TRUE))
                     /\ collected' = CollectTables(TablesUntilRaise(pg.tables, FALSE), 1)
                     /\ elements' = collected'
                     /\ word_doc' = word_doc \o break
                ELSE /\ xpc' = xpc
                     /\ table_rects' = CollectTableRects(pg.tables)
                     /\ collected' = units
                     /\ elements' = sorted
                     /\ word_doc' = word_doc \o break
                                     \o EmitAll(sorted, 1, page_num + 1, pg.width)
    /\ page_num' = page_num + 1
    /\ UNCHANGED <<rvars, probe, uvars, svars>>

\* pdf_doc.close(); word_doc.save(output_buffer)
SaveDocx ==
    /\ xpc = "open"
    /\ page_num >= 1
    /\ xpc' = "saved"
    /\ UNCHANGED <<page, page_num, table_rects, collected, elements, word_doc, rvars, probe,
                   uvars, svars>>

ExtractNext == ExtractPage \/ SaveDocx

ExtractSpec == ExtractInit /\ [][ExtractNext]_vars

-----------------------------------------------------------------------------
(* The alignment rule applied to one line *)

Widths == {100, 200, 612}

Offsets == {0, 5, 9, 10, 11, 19, 20, 21, 30, 31, 40, 50, 60, 90, 95, 100}

AlignInit ==
    /\ \E w \in Widths, xs \in Offsets, re \in Offsets \cup {0 - 5, 0 - 20} :
          probe = [x_start |-> xs, x_end |-> w - re, page_width |-> w,
                   alignment |-> "none"]
    /\ RenderIdle
    /\ ExtractIdle
    /\ UploadIdle
    /\ SplitIdle

Classify ==
    /\ probe.alignment = "none"
    /\ probe.page_width > 0
    /\ probe' = [probe EXCEPT
                   !.alignment = Alignment(probe.x_start, probe.x_end, probe.page_width)]
    /\ UNCHANGED <<rvars, xvars, uvars, svars>>

AlignNext == Classify

AlignSpec == AlignInit /\ [][AlignNext]_vars

-----------------------------------------------------------------------------
(* The upload endpoints: webapp/app/main.py and PdfWeb/app/main.py *)

\* sizes are in MiB
MAX_FILE_SIZE == 50     \* webapp: per file
MAX_BYTES == 25         \* PdfWeb: of the bytes read so far

FileSizes == {10, 30, 60}

\* a file of a request: its size and whether it passes the type validation
\* of the endpoint (MIME type in webapp, magic bytes in PdfWeb)
Files == [size : FileSizes, valid : BOOLEAN]

Apps == {"webapp", "PdfWeb"}

Endpoints == {"merge", "split", "compress", "pdf-to-jpg", "pdf-to-word", "word-to-pdf"}

\* a merge request carries a list of files, every other request one file
Requests ==
    {[app |-> a, endpoint |-> e, files |-> fs] :
        a \in Apps, e \in Endpoints \ {"merge"}, fs \in {<<f>> : f \in Files}}
    \cup {[app |-> a, endpoint |-> "merge", files |-> fs] :
            a \in Apps, fs \in SeqsUpTo(Files, MaxFiles) \ {<<>>}}

Event(ev, file, ok) == [ev |-> ev, file |-> file, ok |-> ok]

\* validate_file_size(content): the size of this file alone
validate_file_size(files, k) == files[k].size <= MAX_FILE_SIZE

RECURSIVE TotalSize(_, _)
TotalSize(files, k) == IF k = 0 THEN 0 ELSE files[k].size + TotalSize(files, k - 1)

\* limit_size(current_bytes): api_merge hands it the running total, the
\* other endpoints the size of their file
limit_size(files, k) == TotalSize(files, k) <= MAX_BYTES

\* the engine calls on the files first..last: PdfReader, fitz.open,
\* convert_from_bytes, extract_text, Document
RECURSIVE EngineCalls(_, _)
EngineCalls(first, last) ==
    IF first > last THEN <<>>
    ELSE <<Event("engine", first, TRUE)>> \o EngineCalls(first + 1, last)

UploadInit ==
    /\ request \in Requests
    /\ file_i = 1
    /\ events = <<>>
    /\ response = "pending"
    /\ RenderIdle
    /\ ExtractIdle
    /\ probe = NoProbe
    /\ SplitIdle

\* `if len(files) < 2: raise HTTPException(400)` of the merge endpoints
TooFewFiles ==
    /\ response = "pending"
    /\ request.endpoint = "merge"
    /\ Len(request.files) < 2
    /\ response' = "400"
    /\ UNCHANGED <<request, file_i, events, rvars, xvars, probe, svars>>

\* webapp: validate_pdf(file); content = await file.read();
\* validate_file_size(content); in merge_pdfs the same loop iteration goes on
\* to PdfReader(pdf_stream) and writer.add_page for this file
WebappReadFile ==
    /\ response = "pending"
    /\ request.app = "webapp"
    /\ request.endpoint = "merge" => Len(request.files) >= 2
    /\ file_i <= Len(request.files)
    /\ IF ~request.files[file_i].valid
       THEN /\ response' = "400"
            /\ UNCHANGED <<events, file_i>>
       ELSE IF ~validate_file_size(request.files, file_i)
       THEN /\ response' = "413"
            /\ events' = Append(events, Event("size_check", file_i, FALSE))
            /\ UNCHANGED file_i
       ELSE /\ events' = Append(events, Event("size_check", file_i, TRUE))
                          \o (IF request.endpoint = "merge"
                              THEN EngineCalls(file_i, file_i) ELSE <<>>)
            /\ file_i' = file_i + 1
            /\ UNCHANGED response
    /\ UNCHANGED <<request, rvars, xvars, probe, svars>>

\* PdfWeb: data = await f.read(); limit_size(...); ensure_pdf(data); the
\* ValueError of limit_size and ensure_pdf is not an HTTPException
PdfWebReadFile ==
    /\ response = "pending"
    /\ request.app = "PdfWeb"
    /\ request.endpoint = "merge" => Len(request.files) >= 2
    /\ file_i <= Len(request.files)
    /\ IF ~limit_size(request.files, file_i)
       THEN /\ response' = "500"
            /\ events' = Append(events, Event("size_check", file_i, FALSE))
            /\ UNCHANGED file_i
       ELSE /\ events' = Append(events, Event("size_check", file_i, TRUE))
            /\ IF ~request.files[file_i].valid
               THEN /\ response' = "500"
                    /\ UNCHANGED file_i
               ELSE /\ file_i' = file_i + 1
                    /\ UNCHANGED response
    /\ UNCHANGED <<request, rvars, xvars, probe, svars>>

\* webapp, once every file was read: the engine of a single-file endpoint
\* opens the file; merge_pdfs, which opened each file in its loop, writes
\* the merged document; the output is returned
WebappRespond ==
    /\ response = "pending"
    /\ request.app = "webapp"
    /\ file_i > Len(request.files)
    /\ request.endpoint = "merge" => Len(request.files) >= 2
    /\ events' = events
                  \o (IF request.endpoint = "merge" THEN <<>>
                      ELSE EngineCalls(1, Len(request.files)))
                  \o <<Event("output", 0, TRUE)>>
    /\ response' = "200"
    /\ UNCHANGED <<request, file_i, rvars, xvars, probe, svars>>

\* PdfWeb, once every file was read: the service function opens the
\* buffers (all of them in merge_pdfs) and the output is returned
PdfWebRespond ==
    /\ response = "pending"
    /\ request.app = "PdfWeb"
    /\ file_i > Len(request.files)
    /\ request.endpoint = "merge" => Len(request.files) >= 2
    /\ events' = events \o EngineCalls(1, Len(request.files))
                  \o <<Event("output", 0, TRUE)>>
    /\ response' = "200"
    /\ UNCHANGED <<request, file_i, rvars, xvars, probe, svars>>

UploadNext ==
    TooFewFiles \/ WebappReadFile \/ PdfWebReadFile \/ WebappRespond \/ PdfWebRespond

UploadSpec == UploadInit /\ [][UploadNext]_vars

-----------------------------------------------------------------------------
(* split_pdf_by_ranges: PdfWeb/app/services/pdf_ops.py *)

\* A ranges string is the sequence of its comma-separated parts, each part
\* stripped and given as its sequence of tokens: a decimal number ("0",
\* "1", ...), the dash "-" or a word that is no number ("x"); tokens other
\* than the dash are separated by blanks.  The empty part is a blank part.
NumTokens == {"0", "1", "2", "4"}

\* int(s) of the tokens s: one number token parses (blanks around it are
\* ignored); anything else raises ValueError.  A dash in s gives either a
\* ValueError or a negative number; both end in the ValueError of the caller.
IntOf(tokens) ==
    IF Len(tokens) = 1 /\ tokens[1] \in NumTokens THEN IntTokens[tokens[1]] ELSE NoInt

\* '-' in part
HasDash(part) == \E k \in 1..Len(part) : part[k] = "-"

\* part.split('-', 1): the tokens in front of and behind the first dash
SplitDash(part) ==
    LET k == CHOOSE i \in 1..Len(part) :
                 part[i] = "-" /\ \A j \in 1..(i - 1) : part[j] # "-"
    IN [a |-> SubSeq(part, 1, k - 1), b |-> SubSeq(part, k + 1, Len(part))]

\* [i-1 for i in range(start, stop + 1)]
PageIndices(start, stop) == [i \in 1..(stop - start + 1) |-> start + i - 2]

\* the body of `for part in parts`, lines 32-43: err if it raises
\* ValueError, else the group it appends
ParsePart(part, total_pages) ==
    IF HasDash(part)
    THEN LET ab == SplitDash(part)
             start == IF ab.a # <<>> THEN IntOf(ab.a) ELSE 1
             end == IF ab.b # <<>> THEN IntOf(ab.b) ELSE total_pages
         IN IF start = NoInt \/ end = NoInt THEN [err |-> TRUE, group |-> <<>>]
            ELSE IF start < 1 \/ end < start THEN [err |-> TRUE, group |-> <<>>]
            ELSE [err |-> FALSE,
                  group |-> PageIndices(start, Min2(end, total_pages))]
    ELSE LET idx_ == IntOf(part)
         IN IF idx_ = NoInt THEN [err |-> TRUE, group |-> <<>>]
            ELSE IF idx_ < 1 \/ idx_ > total_pages THEN [err |-> TRUE, group |-> <<>>]
            ELSE [err |-> FALSE, group |-> <<idx_ - 1>>]

\* parts = [p.strip() for p in ranges.split(',') if p.strip()]
NonBlankParts(ranges) == SelectSeq(ranges, LAMBDA part : part # <<>>)

RECURSIVE ParseParts(_, _, _, _)
\* the loop over parts from part k on, groups being the list built so far
ParseParts(parts, k, total_pages, groups) ==
    IF k > Len(parts) THEN [err |-> FALSE, groups |-> groups]
    ELSE LET r == ParsePart(parts[k], total_pages)
         IN IF r.err THEN [err |-> TRUE, groups |-> groups]
            ELSE ParseParts(parts, k + 1, total_pages, Append(groups, r.group))

\* _parse_ranges(ranges, total_pages)
parse_ranges(ranges, total_pages) ==
    LET r == ParseParts(NonBlankParts(ranges), 1, total_pages, <<>>)
    IN IF r.err \/ r.groups = <<>> THEN [status |-> "ValueError", groups |-> <<>>]
       ELSE [status |-> "parsed", groups |-> r.groups]

\* reader.pages[p] for every p of every group: IndexError outside the document
IndexesOutside(groups, total_pages) ==
    \E g \in 1..Len(groups) : \E i \in 1..Len(groups[g]) :
        groups[g][i] < 0 \/ groups[g][i] >= total_pages

Sides == {<<>>, <<"x">>} \cup {<<t>> : t \in NumTokens}

Parts ==
    {<<>>, <<"x">>, <<"1", "2">>, <<"1", "-", "-", "2">>}
    \cup {<<t>> : t \in NumTokens}
    \cup {a \o <<"-">> \o b : a \in Sides, b \in Sides}

\* the parts of the longer strings
CoreParts == {<<>>, <<"2">>, <<"1", "-", "2">>, <<"4", "-", "4">>, <<"-">>, <<"x">>}

RangeInputs == {<<part>> : part \in Parts} \cup SeqsUpTo(CoreParts, MaxParts)

PageCounts == {1, 2, 3}

SplitInit ==
    /\ split_in \in [ranges : RangeInputs, total_pages : PageCounts]
    /\ split_out = [status |-> "pending", groups |-> <<>>, written |-> <<>>]
    /\ RenderIdle
    /\ ExtractIdle
    /\ probe = NoProbe
    /\ UploadIdle

\* groups = _parse_ranges(ranges, total)
ParseRanges ==
    /\ split_out.status = "pending"
    /\ LET r == parse_ranges(split_in.ranges, split_in.total_pages)
       IN split_out' = [split_out EXCEPT !.status = r.status, !.groups = r.groups]
    /\ UNCHANGED <<split_in, rvars, xvars, probe, uvars>>

\* the loop over groups of split_pdf_by_ranges: one part of the archive per
\* group, holding the pages of the group
WriteParts ==
    /\ split_out.status = "parsed"
    /\ IF IndexesOutside(split_out.groups, split_in.total_pages)
       THEN split_out' = [split_out EXCEPT !.status = "IndexError"]
       ELSE split_out' = [split_out EXCEPT !.status = "written",
                                           !.written = split_out.groups]
    /\ UNCHANGED <<split_in, rvars, xvars, probe, uvars>>

SplitNext == ParseRanges \/ WriteParts

SplitSpec == SplitInit /\ [][SplitNext]_vars

-----------------------------------------------------------------------------
(* Properties of word_to_pdf *)

IsDraw(o) == o.op \in {"drawString", "row", "drawImage"}

MainDrew == \E i \in 1..Len(canvas) : canvas[i].pass = "main" /\ IsDraw(canvas[i])

FallbackDrew == \E i \in 1..Len(canvas) : canvas[i].pass = "fallback" /\ IsDraw(canvas[i])

\* C1: the fallback pass runs only if the main walk drew no text line, table
\* row or image: once the main walk drew a primitive, the fallback pass
\* neither runs nor draws a paragraph or table a second time.
C1_FallbackOnlyIfNothingDrawn ==
    /\ pc = "fell" => ~MainDrew
    /\ ~(MainDrew /\ FallbackDrew)

\* C2: the page check precedes the draw: every text line, table row and image
\* is drawn with the cursor at or above the required space of its kind (50
\* for a line, row_height + 20 for a row, draw_height + 20 for an image).
C2_CheckPrecedesDraw ==
    \A i \in 1..Len(canvas) : IsDraw(canvas[i]) => canvas[i].y >= canvas[i].need

\* C3: a page break is emitted if and only if the next primitive would not
\* fit: in the finished document every showPage is directly followed by a
\* primitive (drawn, or an image given up while drawing) that needed more
\* than the cursor had left, and every primitive that did not fit at the
\* cursor is directly preceded by a showPage.
C3_BreakIffNextDoesNotFit ==
    pc = "done" =>
        /\ \A i \in 1..Len(canvas) :
              canvas[i].op = "showPage" =>
                  /\ i < Len(canvas)
                  /\ IsDraw(canvas[i + 1]) \/ canvas[i + 1].op = "skipImage"
                  /\ canvas[i + 1].need > canvas[i].y
        /\ \A j \in 1..Len(canvas) :
              IsDraw(canvas[j]) =>
                  \/ canvas[j].y >= canvas[j].need
                  \/ j > 1 /\ canvas[j - 1].op = "showPage"

\* C4: the cursor never increases between two page breaks and is reset to
\* height - 50 exactly at a page break: a showPage leaves y = height - 50,
\* every other operation leaves y no larger than it found it, and between
\* two operations (and after the last one) y only decreases.
C4_CursorMonotoneWithinPage ==
    /\ \A i \in 1..Len(canvas) :
          /\ canvas[i].op = "showPage" => canvas[i].y2 = height - 50
          /\ canvas[i].op # "showPage" => canvas[i].y2 <= canvas[i].y
          /\ i < Len(canvas) => canvas[i + 1].y <= canvas[i].y2
    /\ y <= (IF canvas = <<>> THEN height - 50 ELSE canvas[Len(canvas)].y2)

\* a page break was emitted and drawing went on below the top of the new page
C4_Witness ==
    \E i \in 1..Len(canvas) :
        /\ canvas[i].op = "showPage"
        /\ i + 1 < Len(canvas)
        /\ canvas[i + 2].y < height - 50
        /\ y < canvas[i + 2].y

\* C5: table rows are atomic for pagination: every row is painted wholly on
\* one page (its rectangle between the bottom and the top of the page); a
\* row that fits is painted directly below the previous row on the same
\* page, and the first row that would cross the bottom is painted at the
\* top of a new page, the rows after it following below it.
C5_TableRowsAtomic ==
    \A j \in 1..Len(canvas) :
        canvas[j].op = "row" =>
            /\ canvas[j].lo >= 0
            /\ canvas[j].hi <= height
            /\ canvas[j].i > 0 =>
                  /\ j > 1
                  /\ \/ /\ canvas[j - 1].op = "row"
                        /\ canvas[j - 1].el = canvas[j].el
                        /\ canvas[j - 1].i = canvas[j].i - 1
                        /\ canvas[j].y = canvas[j - 1].y - row_height
                        /\ canvas[j].y >= row_height + 20
                     \/ /\ canvas[j - 1].op = "showPage"
                        /\ canvas[j - 1].y < row_height + 20
                        /\ canvas[j].y = height - 50
                        /\ j > 2
                        /\ canvas[j - 2].op = "row"
                        /\ canvas[j - 2].el = canvas[j].el
                        /\ canvas[j - 2].i = canvas[j].i - 1
                        /\ canvas[j - 1].y = canvas[j - 2].y - row_height

\* a table was split: one of its rows, not the first, opens a new page
C5_Witness ==
    \E j \in 2..Len(canvas) :
        /\ canvas[j].op = "row"
        /\ canvas[j].i > 0
        /\ canvas[j - 1].op = "showPage"
        /\ canvas[j].y = height - 50

-----------------------------------------------------------------------------
(* Properties of pdf_to_word *)

\* s rearranged by the permutation f of its indices
Permuted(s, f) == [i \in 1..Len(s) |-> s[f[i]]]

\* f keeps the relative order of the units of s that have the same y
KeepsTies(s, f) ==
    \A i, j \in 1..Len(s) : (i < j /\ s[f[i]].y = s[f[j]].y) => f[i] < f[j]

\* C6: the sequence after sorting by y_position is the same whatever the
\* order in which the units of the page were collected, units with equal
\* y_position included, and sorting the sorted sequence changes nothing.
C6_OrderIndependentOfCollection ==
    xpc = "open" =>
        /\ \A f \in Permutations(1..Len(collected)) :
              SortByY(Permuted(collected, f)) = elements
        /\ SortByY(elements) = elements

\* C6 (amended): the sequence after sorting by y_position is the same for
\* every collection order that keeps the relative order of the units with
\* equal y_position, and sorting the sorted sequence changes nothing.
C6_OrderIndependentUpToTies ==
    xpc = "open" =>
        /\ \A f \in Permutations(1..Len(collected)) :
              KeepsTies(collected, f) => SortByY(Permuted(collected, f)) = elements
        /\ SortByY(elements) = elements

\* a page whose units were collected out of reading order, two of them tied
C6_Witness ==
    /\ xpc = "open"
    /\ Len(collected) >= 3
    /\ collected # elements
    /\ \E i, j \in 1..Len(collected) : i < j /\ collected[i].y = collected[j].y
    /\ \E f \in Permutations(1..Len(collected)) :
          /\ KeepsTies(collected, f)
          /\ \E i \in 1..Len(collected) : f[i] # i

RECURSIVE WithY(_, _)
\* the units of s at the vertical position v, in their order in s
WithY(s, v) ==
    IF s = <<>> THEN <<>>
    ELSE (IF Head(s).y = v THEN <<Head(s)>> ELSE <<>>) \o WithY(Tail(s), v)

RECURSIVE UnitsOfPage(_, _)
\* the units the blocks of page pn were emitted for, in block order
UnitsOfPage(blocks, pn) ==
    IF blocks = <<>> THEN <<>>
    ELSE (IF Head(blocks).page = pn /\ Head(blocks).unit # NoUnit
          THEN <<Head(blocks).unit>> ELSE <<>>)
         \o UnitsOfPage(Tail(blocks), pn)

KindRank(type) == IF type = "table" THEN 1 ELSE IF type = "image" THEN 2 ELSE 3

\* C7: the blocks of a page follow the collected units in non-decreasing
\* y_position, units with equal y_position in insertion order (tables, then
\* images, then text lines, each kind in collection order), and the blocks of
\* a page come before the blocks of the next page.
C7_ReadingOrder ==
    /\ Len(elements) = Len(collected)
    /\ \A i, j \in 1..Len(collected) :
          i < j => KindRank(collected[i].type) <= KindRank(collected[j].type)
    /\ \A i, j \in 1..Len(elements) : i < j => elements[i].y <= elements[j].y
    /\ \A i \in 1..Len(collected) :
          WithY(elements, collected[i].y) = WithY(collected, collected[i].y)
    /\ UnitsOfPage(word_doc, page_num) = elements
    /\ \A i, j \in 1..Len(word_doc) : i < j => word_doc[i].page <= word_doc[j].page

\* the second page of a document, holding a table, an image and a text line
\* at the same height and a text line above them
C7_Witness ==
    /\ page_num = 2
    /\ \E i, j, k, l \in 1..Len(elements) :
          /\ i < j /\ j < k /\ l < i
          /\ elements[i].type = "table"
          /\ elements[j].type = "image"
          /\ elements[k].type = "text"
          /\ elements[i].y = elements[j].y
          /\ elements[j].y = elements[k].y
          /\ elements[l].type = "text"
    /\ \E b \in 1..Len(word_doc) : word_doc[b].page = 1 /\ word_doc[b].unit # NoUnit

\* C8: the alignment of a line is exactly one of left, center and right:
\* center when |L - R| < 0.05 W and L > 0.10 W, right when that fails and
\* R < 0.05 W and L > 0.10 W, left otherwise; center wins when both match.
C8_AlignmentTotalAndPrioritised ==
    probe.alignment # "none" =>
        LET L == probe.x_start
            R == probe.page_width - probe.x_end
            W == probe.page_width
            center == 20 * Abs(L - R) < W /\ 10 * L > W
            right == 20 * R < W /\ 10 * L > W
        IN /\ probe.alignment \in {"left", "center", "right"}
           /\ center => probe.alignment = "center"
           /\ (~center /\ right) => probe.alignment = "right"
           /\ (~center /\ ~right) => probe.alignment = "left"

\* a line classified right: close to the right edge and not centred
C8_Witness ==
    /\ probe.alignment = "right"
    /\ 20 * (probe.page_width - probe.x_end) < probe.page_width
    /\ probe.x_end <= probe.page_width

\* r lies fully inside t
InsideRect(r, t) == t[1] <= r[1] /\ t[2] <= r[2] /\ r[3] <= t[3] /\ r[4] <= t[4]

\* the text lines of the page that lie fully inside the box of one of its tables
LinesInsideTables ==
    {bl \in {<<b, l>> : b \in 1..Len(page.blocks), l \in 1..3} :
        /\ bl[2] <= Len(page.blocks[bl[1]].lines)
        /\ page.blocks[bl[1]].type = 0
        /\ \E t \in 1..Len(page.tables) :
              InsideRect(page.blocks[bl[1]].lines[bl[2]].bbox, page.tables[t].bbox)}

\* C9: a text line whose bounding box lies fully inside the bounding box of
\* a table of its page gives no text unit and no paragraph of the output.
C9_TableSuppression ==
    \A bl \in LinesInsideTables :
        /\ \A i \in 1..Len(elements) :
              ~(elements[i].type = "text" /\ elements[i].src = bl)
        /\ \A i \in 1..Len(word_doc) :
              ~(/\ word_doc[i].page = page_num
                /\ word_doc[i].unit.type = "text"
                /\ word_doc[i].unit.src = bl)

\* a page with a line of text inside a table and another line that was kept
C9_Witness ==
    /\ LinesInsideTables # {}
    /\ \E i \in 1..Len(elements) : elements[i].type = "text"

\* the cell holds a character that is not a blank
CellNotBlank(cell) == cell # NoneCell /\ \E k \in 1..Len(cell) : cell[k] # " "

RowNotBlank(row) == \E k \in 1..Len(row) : CellNotBlank(row[k])

TableUnitsOf(t) == {i \in 1..Len(elements) : elements[i].type = "table" /\ elements[i].src = <<t>>}

\* C10: blank rows are dropped from every table and a table is emitted only
\* if a row survives; the bounding box of a table is recorded even when all
\* its rows are blank, so that text over it is still suppressed.
C10_EmptyTable ==
    \A t \in 1..Len(page.tables) :
        LET table == page.tables[t]
            kept == {r \in 1..Len(table.data) : RowNotBlank(table.data[r])}
        IN /\ Len(table_rects) = Len(page.tables)
           /\ table_rects[t] = table.bbox
           /\ (kept = {}) <=> (TableUnitsOf(t) = {})
           /\ \A i \in TableUnitsOf(t) :
                 /\ Len(elements[i].rows) = Cardinality(kept)
                 /\ \A r \in 1..Len(elements[i].rows) : RowNotBlank(elements[i].rows[r])
           /\ Cardinality(TableUnitsOf(t)) <= 1
           /\ \A b \in 1..Len(page.blocks) :
                 (page.blocks[b].type = 0 /\ Intersects(table.bbox, page.blocks[b].bbox))
                     => \A i \in 1..Len(elements) :
                           ~(elements[i].type = "text" /\ elements[i].src[1] = b)
           /\ \A i \in 1..Len(word_doc) :
                 (word_doc[i].page = page_num /\ word_doc[i].kind = "table")
                     => /\ word_doc[i].unit.type = "table"
                        /\ Len(word_doc[i].cells) >= 1
                        /\ kept # {}

\* a page whose only table has blank rows alone, with text over its box:
\* no table unit, the text suppressed
C10_Witness ==
    /\ Len(page.tables) = 1
    /\ \A r \in 1..Len(page.tables[1].data) : ~RowNotBlank(page.tables[1].data[r])
    /\ Len(page.tables[1].data) > 0
    /\ \E b \in 1..Len(page.blocks) :
          page.blocks[b].type = 0 /\ Intersects(page.tables[1].bbox, page.blocks[b].bbox)
    /\ \A i \in 1..Len(elements) : elements[i].type # "table"
    /\ table_rects = <<page.tables[1].bbox>>

-----------------------------------------------------------------------------
(* Properties of the failure handling *)

\* the blocks appended for the page converted last
BlocksOfPage ==
    SelectSeq(word_doc, LAMBDA b : b.page = page_num /\ b.kind # "page_break")

\* C11: a failure of one element is never escalated: when one image fails to
\* extract or to be inserted, or the extraction of one table raises, the
\* request does not fail, and every other unit collected on the page still
\* has its block in the output document.
C11_ElementFailuresStayLocal ==
    /\ xpc # "failed"
    /\ page_num >= 1 =>
          \A k \in 1..Len(elements) :
              (elements[k].type # "image" \/ elements[k].img.ok) =>
                  \E j \in 1..Len(BlocksOfPage) :
                      /\ BlocksOfPage[j].unit = elements[k]
                      /\ BlocksOfPage[j].kind = (IF elements[k].type = "table" THEN "table"
                                                 ELSE IF elements[k].type = "image"
                                                 THEN "picture" ELSE "paragraph")

\* an image of the page that gives no picture: extract_image raised, or
\* run.add_picture raised
ImageFailed(im) == im.extract # "ok" \/ im.insert # "ok"

\* the page without its failing images
WithoutFailedImages(pg) ==
    [pg EXCEPT !.images = SelectSeq(pg.images, LAMBDA im : ~ImageFailed(im))]

\* the paragraphs emitted for text lines
TextParagraphs(blocks) ==
    SelectSeq(blocks, LAMBDA b : b.kind = "paragraph" /\ b.unit.type = "text")

ImageFailurePage ==
    /\ page_num >= 1
    /\ \E k \in 1..Len(page.images) : ImageFailed(page.images[k])
    /\ ~TableExtractRaises(page)

\* C12: on a page with text lines and an image whose extraction or insertion
\* fails, the conversion completes, the output has one paragraph per
\* collected text line, in the same order and with the same runs as for the
\* same page without the failing image, and no picture for the failing image.
C12_TextSurvivesImageFailure ==
    ImageFailurePage =>
        LET clean == WithoutFailedImages(page)
            expected == EmitAll(SortByY(CollectElements(clean)), 1, page_num, clean.width)
        IN /\ xpc # "failed"
           /\ TextParagraphs(BlocksOfPage) = TextParagraphs(expected)
           /\ Len(TextParagraphs(BlocksOfPage))
                = Len(SelectSeq(elements, LAMBDA u : u.type = "text"))
           /\ \A j \in 1..Len(BlocksOfPage) :
                  BlocksOfPage[j].kind = "picture" =>
                      ~ImageFailed(page.images[BlocksOfPage[j].unit.src[1]])

\* a page was converted on which an image failed to be inserted between two
\* text lines that were both emitted
C12_Witness ==
    /\ ImageFailurePage
    /\ \E k \in 1..Len(page.images) : page.images[k].insert # "ok"
    /\ Len(TextParagraphs(BlocksOfPage)) >= 2
    /\ xpc = "saved"

\* a page was converted on which the extraction of an image raised
C12_WitnessExtract ==
    /\ ImageFailurePage
    /\ \E k \in 1..Len(page.images) : page.images[k].extract # "ok"
    /\ Len(TextParagraphs(BlocksOfPage)) >= 2

-----------------------------------------------------------------------------
(* Properties of the upload endpoints *)

\* the size check of some file of the request failed
OversizedUpload ==
    \E k \in 1..Len(events) : events[k].ev = "size_check" /\ ~events[k].ok

\* C13: in every upload endpoint of both applications, the merge endpoints
\* included, an oversized upload is rejected before any engine call: when
\* the size check of a file of the request fails, no file of the request was
\* handed to an engine before, and no output is returned.
C13_SizeCheckBeforeEngine ==
    OversizedUpload =>
        /\ \A k \in 1..Len(events) : events[k].ev \notin {"engine", "output"}
        /\ response \notin {"pending", "200"}

-----------------------------------------------------------------------------
(* Properties of the text of a paragraph *)

\* the lines drawn by the main walk for body node k, in drawing order
DrawnLines(k) ==
    SelectSeq(canvas, LAMBDA o : o.op = "drawString" /\ o.el = k /\ o.pass = "main")

RECURSIVE ConcatText(_)
ConcatText(lines) ==
    IF lines = <<>> THEN <<>> ELSE Head(lines).text \o ConcatText(Tail(lines))

\* the words handed to draw_text_aligned for a paragraph
DisplayWords(para) ==
    IF para.text # <<>> /\ para.numPr
       /\ ~HasToken(para.style, "Heading") /\ ~HasToken(para.style, "Title")
    THEN <<PrefixWord>> \o para.text
    ELSE para.text

\* twice the measured width of a drawn line
LineWidth2(o) == stringWidth2(LineLen(o.text), o.font_size)

\* C14: the words of a paragraph are packed greedily: the drawn lines hold
\* exactly the words of the text in order, each word on one line, no drawn
\* line is empty, and the measured width of every drawn line does not exceed
\* the available width (content_width minus the indent), also when a single
\* word is wider than the available width.
C14_GreedyPacking ==
    \A k \in 1..(idx - 1) :
        doc[k].tag = "p" =>
            /\ ConcatText(DrawnLines(k)) = DisplayWords(doc[k])
            /\ \A i \in 1..Len(DrawnLines(k)) :
                  /\ DrawnLines(k)[i].text # <<>>
                  /\ LineWidth2(DrawnLines(k)[i])
                        <= 2 * (content_width - DrawnLines(k)[i].indent)

\* the indent of the text of a paragraph: 20 for a list item drawn as body
\* text, 0 otherwise
IndentOf(para) ==
    IF para.numPr /\ ~HasToken(para.style, "Heading") /\ ~HasToken(para.style, "Title")
    THEN 20 ELSE 0

\* C15 as stated: every drawn line, with any alignment and any indent (0 or
\* 20), is drawn at x = left_margin + (content_width - text_width) / 2 when
\* centred, right_margin - text_width when right aligned and
\* left_margin + indent when left aligned (x and the widths taken four
\* times and twice, to stay in the integers).
C15_LineXAsStated ==
    \A k \in 1..(idx - 1) :
        doc[k].tag = "p" =>
            \A i \in 1..Len(DrawnLines(k)) :
                LET o == DrawnLines(k)[i]
                    w2 == LineWidth2(o)
                    indent == IndentOf(doc[k])
                IN o.x4 = (IF doc[k].alignment = "center"
                           THEN 4 * left_margin + 2 * content_width - w2
                           ELSE IF doc[k].alignment = "right"
                           THEN 4 * right_margin - 2 * w2
                           ELSE 4 * (left_margin + indent))

\* C15, amended: a centred line is centred in the indented width:
\* x = left_margin + indent + (content_width - indent - text_width) / 2;
\* right: right_margin - text_width; left: left_margin + indent.
C15_LineX ==
    \A k \in 1..(idx - 1) :
        doc[k].tag = "p" =>
            \A i \in 1..Len(DrawnLines(k)) :
                LET o == DrawnLines(k)[i]
                    w2 == LineWidth2(o)
                    indent == IndentOf(doc[k])
                IN o.x4 = (IF doc[k].alignment = "center"
                           THEN 4 * (left_margin + indent)
                                + 2 * (content_width - indent) - w2
                           ELSE IF doc[k].alignment = "right"
                           THEN 4 * right_margin - 2 * w2
                           ELSE 4 * (left_margin + indent))

\* a centred list item was drawn on two lines
C15_Witness ==
    /\ idx = 2
    /\ doc[1].alignment = "center"
    /\ IndentOf(doc[1]) = 20
    /\ Len(DrawnLines(1)) >= 2

-----------------------------------------------------------------------------
(* Properties of the styles *)

\* the trailing integer of a style name, 1 when the last token is none
TrailingLevel(style_name) ==
    IF style_name[Len(style_name)] \in DOMAIN IntTokens
    THEN IntTokens[style_name[Len(style_name)]] ELSE 1

\* what C16 says of the lines of a heading and of a title, but for the
\* comparison of the two sizes
HeadingAndTitleSizes(k, o) ==
    LET level == TrailingLevel(doc[k].style)
    IN IF HasToken(doc[k].style, "Heading")
       THEN /\ o.bold
            /\ o.font_size >= 12
            /\ level \in 1..3 => o.font_size = 18 - 2 * level
            /\ level > 3 => o.font_size = 12
            /\ \A t \in DOMAIN IntTokens :
                  /\ IntTokens[t] <= level => HeadingFontSize(IntTokens[t]) >= o.font_size
                  /\ IntTokens[t] >= level => HeadingFontSize(IntTokens[t]) <= o.font_size
       ELSE HasToken(doc[k].style, "Title") => o.bold /\ o.font_size = 20

\* C16 as stated: a heading is drawn bold at the size of its level (the
\* trailing integer of the style name, 1 without one): never below 12, 16,
\* 14, 12 for levels 1 to 3, 12 above, non-increasing in the level for every
\* integer level; a title is drawn bold at 20, which is larger than the size
\* of every heading.
C16_HeadingAsStated ==
    \A k \in 1..(idx - 1) :
        doc[k].tag = "p" =>
            \A i \in 1..Len(DrawnLines(k)) :
                /\ HeadingAndTitleSizes(k, DrawnLines(k)[i])
                /\ HasToken(doc[k].style, "Heading") => DrawnLines(k)[i].font_size < 20

\* C16, amended: as above, but the size of a heading is below the size 20
\* of a title only for the levels from 0 upwards; with a negative trailing
\* integer the size is 18 - 2 * level, 20 or more.
C16_Heading ==
    \A k \in 1..(idx - 1) :
        doc[k].tag = "p" =>
            \A i \in 1..Len(DrawnLines(k)) :
                /\ HeadingAndTitleSizes(k, DrawnLines(k)[i])
                /\ HasToken(doc[k].style, "Heading") =>
                      IF TrailingLevel(doc[k].style) >= 0
                      THEN DrawnLines(k)[i].font_size < 20
                      ELSE DrawnLines(k)[i].font_size
                             = 18 - 2 * TrailingLevel(doc[k].style)

\* a heading of a level above 3 was drawn, at the floor of 12
C16_Witness ==
    /\ idx = 2
    /\ HasToken(doc[1].style, "Heading")
    /\ TrailingLevel(doc[1].style) > 3
    /\ DrawnLines(1) # <<>>
    /\ DrawnLines(1)[1].font_size = 12

\* a body paragraph: neither a heading nor a title
IsBodyText(para) ==
    para.tag = "p" /\ ~HasToken(para.style, "Heading") /\ ~HasToken(para.style, "Title")

\* the ink of a drawn line: the color argument, the default black without
Ink(o) == IF o.color = <<>> THEN <<0, 0, 0>> ELSE o.color

\* C17 as stated: a body paragraph is drawn with one style: bold iff a run
\* is bold, italic iff a run is italic, and a colour is applied iff a run
\* carries a set colour, a colour counting as set only if it is not pure
\* black; for zero, one or several runs.
C17_RunCollapseAsStated ==
    \A k \in 1..(idx - 1) :
        IsBodyText(doc[k]) =>
            \A i \in 1..Len(DrawnLines(k)) :
                LET o == DrawnLines(k)[i]
                    runs == doc[k].runs
                IN /\ o.bold <=> \E r \in 1..Len(runs) : runs[r].bold
                   /\ o.italic <=> \E r \in 1..Len(runs) : runs[r].italic
                   /\ (Ink(o) # <<0, 0, 0>>) <=>
                         \E r \in 1..Len(runs) :
                             runs[r].color.type = "rgb" /\ runs[r].color.rgb # <<0, 0, 0>>

\* the runs that carry an explicit RGB colour, pure black included
Coloured(runs) == {r \in 1..Len(runs) : runs[r].color.type = "rgb"}

\* C17, amended: bold iff a run is bold, italic iff a run is italic; a
\* colour is handed to the drawing iff a run carries an explicit RGB colour,
\* pure black counting as a colour, and it is the colour of the first such
\* run.
C17_RunCollapse ==
    \A k \in 1..(idx - 1) :
        IsBodyText(doc[k]) =>
            \A i \in 1..Len(DrawnLines(k)) :
                LET o == DrawnLines(k)[i]
                    runs == doc[k].runs
                IN /\ o.bold <=> \E r \in 1..Len(runs) : runs[r].bold
                   /\ o.italic <=> \E r \in 1..Len(runs) : runs[r].italic
                   /\ (o.color # <<>>) <=> (Coloured(runs) # {})
                   /\ Coloured(runs) # {} =>
                         \E r \in Coloured(runs) :
                             /\ \A q \in Coloured(runs) : r <= q
                             /\ o.color = runs[r].color.rgb

\* a paragraph of two runs was drawn bold and coloured although its first
\* run is neither
C17_Witness ==
    /\ idx = 2
    /\ IsBodyText(doc[1])
    /\ Len(doc[1].runs) = 2
    /\ ~doc[1].runs[1].bold
    /\ doc[1].runs[1].color.type # "rgb"
    /\ DrawnLines(1) # <<>>
    /\ DrawnLines(1)[1].bold
    /\ DrawnLines(1)[1].color # <<>>

-----------------------------------------------------------------------------
(* Properties of the collection of text lines and of failed images *)

\* the text units collected for line l of block b
TextUnitsOf(b, l) ==
    {i \in 1..Len(elements) : elements[i].type = "text" /\ elements[i].src = <<b, l>>}

\* C18: a text line is suppressed only if its own bounding box intersects
\* the bounding box of a table of the page or if none of its spans has text;
\* every other line gives exactly one text unit, whose y_position is the top
\* edge of the line, whatever block the line belongs to.
C18_LineSuppression ==
    (page_num >= 1 /\ ~TableExtractRaises(page)) =>
        \A b \in 1..Len(page.blocks) :
            page.blocks[b].type = 0 =>
                \A l \in 1..Len(page.blocks[b].lines) :
                    LET line == page.blocks[b].lines[l]
                    IN (/\ SpansInfo(line.spans) # <<>>
                        /\ \A t \in 1..Len(page.tables) :
                              ~Intersects(page.tables[t].bbox, line.bbox))
                       => /\ Cardinality(TextUnitsOf(b, l)) = 1
                          /\ \A i \in TextUnitsOf(b, l) : elements[i].y = line.bbox[2]

\* the units of the page but the image units whose insertion fails
WithoutFailedInsertions(units) ==
    SelectSeq(units, LAMBDA u : u.type # "image" \/ u.img.ok)

\* C19: an image unit whose insertion fails is skipped with no effect on the
\* output: the blocks of its page are the blocks of the same page without
\* that unit, and no empty paragraph is left behind for it.
C19_FailedImageLeavesNothing ==
    (page_num >= 1 /\ ~TableExtractRaises(page)) =>
        /\ BlocksOfPage = EmitAll(WithoutFailedInsertions(elements), 1, page_num, page.width)
        /\ \A j \in 1..Len(BlocksOfPage) :
              BlocksOfPage[j].unit.type = "image" => BlocksOfPage[j].kind = "picture"

-----------------------------------------------------------------------------
(* Properties of the branches of the alignment rule *)

\* the rule with its two tests in the other order
RightFirst(lm, rm, page_width) ==
    IF RightCondition(lm, rm, page_width) THEN "right"
    ELSE IF CenterCondition(lm, rm, page_width) THEN "center"
    ELSE "left"

\* C20: for a page of any width W > 0 and a line with left margin L and
\* right margin R, negative R included, the center condition
\* (|L - R| < 0.05 W and L > 0.10 W) and the right condition (R < 0.05 W and
\* L > 0.10 W) never hold together, so the alignment is the same whichever
\* of the two branches is tested first.
C20_CenterRightExclusive ==
    probe.page_width > 0 =>
        LET lm == probe.x_start
            rm == probe.page_width - probe.x_end
        IN /\ ~(CenterCondition(lm, rm, probe.page_width)
                /\ RightCondition(lm, rm, probe.page_width))
           /\ probe.alignment # "none" =>
                 probe.alignment = RightFirst(lm, rm, probe.page_width)

\* a line running over the right edge of the page (R < 0) was classified as
\* right aligned
C20_Witness ==
    /\ probe.alignment = "right"
    /\ probe.x_end > probe.page_width
    /\ 10 * probe.x_start > probe.page_width

-----------------------------------------------------------------------------
(* Properties of the page ranges *)

\* the groups _parse_ranges returned, if it returned
ReturnedGroups == split_out.status \in {"parsed", "written", "IndexError"}

\* C21: _parse_ranges either raises ValueError or returns a non-empty list
\* of groups, one per non-blank part in input order, every group non-empty,
\* strictly increasing and made of valid 0-based page indices below
\* total_pages; so split_pdf_by_ranges never writes a part with zero pages
\* and never indexes a page outside the document.
C21_GroupsWellFormed ==
    /\ split_out.status # "IndexError"
    /\ ReturnedGroups =>
          LET groups == split_out.groups
              parts == NonBlankParts(split_in.ranges)
          IN /\ groups # <<>>
             /\ Len(groups) = Len(parts)
             /\ \A g \in 1..Len(groups) :
                   /\ groups[g] # <<>>
                   /\ \A i \in 1..Len(groups[g]) :
                         /\ groups[g][i] \in 0..(split_in.total_pages - 1)
                         /\ i > 1 => groups[g][i - 1] < groups[g][i]
    /\ \A w \in 1..Len(split_out.written) : split_out.written[w] # <<>>

====
